---- MODULE Spec2Model ----
(***************************************************************************)
(* A model of the OCI registry of main.go: the storage root as a           *)
(* filesystem (directories, files, hard links), the HTTP response writer,  *)
(* and the /v2/ handler as the chain of endpoint matchers it is in the     *)
(* source.  Paths are sequences of components relative to rootDir, byte    *)
(* strings are sequences of small integers.                                *)
(***************************************************************************)
EXTENDS Integers, Sequences, FiniteSets, TLC

VARIABLES fs, sess, req, resp, nreq, wr, parsed

vars == <<fs, sess, req, resp, nreq, wr, parsed>>

(***************************************************************************)
(* Bounds of the model.                                                    *)
(***************************************************************************)
MaxByte == 1
MaxLen == 2
MaxSessions == 1
MaxRequests == 3
MaxN == 3
MaxNameLen == 3

Byte == 1..MaxByte

RECURSIVE SeqsOfLen(_, _)
SeqsOfLen(S, n) ==
    IF n = 0 THEN {<<>>}
    ELSE {Append(s, x) : s \in SeqsOfLen(S, n - 1), x \in S}

Bodies == UNION {SeqsOfLen(Byte, n) : n \in 0..MaxLen}

Repos == {<<"a", "b">>, <<"a", "b", "c">>}

Tags == {"v1", "v2"}

NoCR == -1

NoN == -1

Min(a, b) == IF a < b THEN a ELSE b

Max(a, b) == IF a > b THEN a ELSE b

Last(s) == s[Len(s)]

(***************************************************************************)
(* Digest service.  sha256 is taken as collision free: the digest string   *)
(* of a byte string is "sha256:" followed by a hex string that determines  *)
(* the bytes.                                                              *)
(***************************************************************************)
HexByte == <<"00", "01", "02", "03", "04", "05", "06", "07">>

RECURSIVE Sum256(_)
Sum256(b) == IF b = <<>> THEN "" ELSE HexByte[Head(b) + 1] \o Sum256(Tail(b))

getDigest(b) == "sha256:" \o Sum256(b)

DigestArgs == {getDigest(b) : b \in Bodies}

\* regexp.MatchString over the names of the model
matchesDigest(x) == x \in DigestArgs

matchesRef(x) == x \in Tags

NameComponents == {"a", "b", "c", "blobs", "manifests", "tags", "referrers", "uploads", "list"}

matchesName(name) == name # <<>> /\ \A i \in 1..Len(name) : name[i] \in NameComponents

SessionId(i) == "u" \o ToString(i)

(***************************************************************************)
(* The filesystem under rootDir: f.dirs the directories, f.files the       *)
(* regular files with their bytes, f.links the sets of two or more paths   *)
(* that are hard links to one inode.                                       *)
(***************************************************************************)
Parent(p) == SubSeq(p, 1, Len(p) - 1)

Prefixes(p) == {SubSeq(p, 1, k) : k \in 0..Len(p)}

IsPrefix(p, q) == Len(p) <= Len(q) /\ SubSeq(q, 1, Len(p)) = p

IsDir(f, p) == p \in f.dirs

IsFile(f, p) == p \in DOMAIN f.files

Exists(f, p) == IsDir(f, p) \/ IsFile(f, p)

\* a component of the path below p is a regular file (ENOTDIR)
NotDir(f, p) == \E q \in Prefixes(p) : q # p /\ IsFile(f, q)

GroupOf(f, p) == IF \E g \in f.links : p \in g THEN CHOOSE g \in f.links : p \in g ELSE {p}

SetData(f, p, d) ==
    [f EXCEPT !.files = [q \in DOMAIN f.files |-> IF q \in GroupOf(f, p) THEN d ELSE f.files[q]]]

Unlink(f, gone) ==
    [dirs |-> f.dirs \ gone,
     files |-> [q \in (DOMAIN f.files) \ gone |-> f.files[q]],
     links |-> {g \ gone : g \in {h \in f.links : Cardinality(h \ gone) >= 2}}]

MkdirAll(f, p) ==
    [err |-> \E q \in Prefixes(p) : IsFile(f, q),
     fs |-> [f EXCEPT !.dirs = @ \cup {q \in Prefixes(p) : ~\E x \in Prefixes(q) : IsFile(f, x)}]]

\* os.OpenFile(p, os.O_RDWR|os.O_CREATE, 0644)
OpenFileCreate(f, p) ==
    IF IsDir(f, p) \/ ~IsDir(f, Parent(p)) THEN [err |-> TRUE, fs |-> f]
    ELSE IF IsFile(f, p) THEN [err |-> FALSE, fs |-> f]
    ELSE [err |-> FALSE, fs |-> [f EXCEPT !.files = [q \in (DOMAIN f.files) \cup {p} |-> IF q = p THEN <<>> ELSE f.files[q]]]]

\* os.Truncate(p, 0)
Truncate(f, p) ==
    IF IsFile(f, p) THEN [err |-> FALSE, fs |-> SetData(f, p, <<>>)] ELSE [err |-> TRUE, fs |-> f]

\* the bytes of a file after f.WriteAt(buf, off)
WriteAtBytes(data, buf, off) ==
    [i \in 1..Max(Len(data), IF buf = <<>> THEN 0 ELSE off + Len(buf)) |->
        IF i > off /\ i <= off + Len(buf) THEN buf[i - off]
        ELSE IF i <= Len(data) THEN data[i] ELSE 0]

\* os.Rename(old, new) of a regular file
Rename(f, old, new) ==
    IF ~IsFile(f, old) \/ IsDir(f, new) \/ ~IsDir(f, Parent(new)) THEN [err |-> TRUE, fs |-> f]
    ELSE IF new \in GroupOf(f, old) THEN [err |-> FALSE, fs |-> f]
    ELSE LET g == Unlink(f, {new})
             grp == GroupOf(g, old)
         IN [err |-> FALSE,
             fs |-> [dirs |-> g.dirs,
                     files |-> [q \in ((DOMAIN g.files) \ {old}) \cup {new} |->
                                   IF q = new THEN g.files[old] ELSE g.files[q]],
                     links |-> IF Cardinality(grp) >= 2
                               THEN (g.links \ {grp}) \cup {(grp \ {old}) \cup {new}}
                               ELSE g.links]]

\* os.Link(old, new)
Link(f, old, new) ==
    IF ~IsFile(f, old) \/ Exists(f, new) \/ ~IsDir(f, Parent(new)) THEN [err |-> TRUE, fs |-> f]
    ELSE [err |-> FALSE,
          fs |-> [dirs |-> f.dirs,
                  files |-> [q \in (DOMAIN f.files) \cup {new} |-> IF q = new THEN f.files[old] ELSE f.files[q]],
                  links |-> (f.links \ {GroupOf(f, old)}) \cup {GroupOf(f, old) \cup {new}}]]

\* os.RemoveAll(p)
RemoveAll(f, p) ==
    Unlink(f, {q \in f.dirs \cup DOMAIN f.files : IsPrefix(p, q)})

\* the names ReadDir returns are sorted by filename
NameOrder == <<"_blobs", "a", "b", "c", "manifest.json", "v1", "v2">>

Rank(n) == CHOOSE i \in 1..Len(NameOrder) : NameOrder[i] = n

RECURSIVE SortNames(_)
SortNames(S) ==
    IF S = {} THEN <<>>
    ELSE LET m == CHOOSE x \in S : \A y \in S : Rank(x) <= Rank(y)
         IN <<m>> \o SortNames(S \ {m})

\* os.ReadDir(p)
ReadDir(f, p) ==
    IF ~IsDir(f, p) THEN [err |-> TRUE, names |-> <<>>]
    ELSE [err |-> FALSE,
          names |-> SortNames({q[Len(q)] : q \in {x \in f.dirs \cup DOMAIN f.files :
                                                    Len(x) = Len(p) + 1 /\ IsPrefix(p, x)}})]

fileExists(f, p) ==
    IF Exists(f, p) THEN [err |-> FALSE, b |-> TRUE]
    ELSE [err |-> NotDir(f, p), b |-> FALSE]

readFile(f, p) ==
    IF IsFile(f, p) THEN [err |-> FALSE, b |-> f.files[p]] ELSE [err |-> TRUE, b |-> <<>>]

validateBlob(f, filePath, digest) ==
    LET b == readFile(f, filePath) IN ~b.err /\ getDigest(b.b) = digest

EmptyFS == [dirs |-> {<<>>}, files |-> [q \in {} |-> <<>>], links |-> {}]

\* path.Join drops empty elements
Join(dir, names) == dir \o SelectSeq(names, LAMBDA c : c # "")

(***************************************************************************)
(* http.ResponseWriter: the first WriteHeader fixes the status and the     *)
(* headers that are sent; later ones are superfluous.  status 0 is "not    *)
(* written yet".                                                           *)
(***************************************************************************)
NoHeaders == [location |-> <<>>, range |-> <<>>, digest |-> ""]

NewWriter == [status |-> 0, hdr |-> NoHeaders, sent |-> NoHeaders,
              body |-> <<>>, msgs |-> <<>>, calls |-> 0, doc |-> <<>>, aborted |-> FALSE]

SetLocation(w, loc) == [w EXCEPT !.hdr.location = loc]

SetRange(w, lo, hi) == [w EXCEPT !.hdr.range = <<lo, hi>>]

SetContentDigest(w, d) == [w EXCEPT !.hdr.digest = d]

WriteHeader(w, code) ==
    IF w.status = 0 THEN [w EXCEPT !.status = code, !.sent = w.hdr, !.calls = @ + 1]
    ELSE [w EXCEPT !.calls = @ + 1]

Write(w, b) ==
    LET w1 == IF w.status = 0 THEN WriteHeader(w, 200) ELSE w
    IN [w1 EXCEPT !.body = @ \o b]

\* w.Write(jb) of a marshalled JSON document v
WriteJSON(w, v) ==
    LET w1 == IF w.status = 0 THEN WriteHeader(w, 200) ELSE w
    IN [w1 EXCEPT !.doc = Append(@, v)]

\* a panic in the handler: net/http recovers it and closes the connection
\* without a response
Panic(w) == [w EXCEPT !.aborted = TRUE]

\* bytes.Buffer.WriteTo(w): no Write call for an empty buffer
WriteTo(w, b) == IF b = <<>> THEN w ELSE Write(w, b)

HttpError(w, msg, code) ==
    LET w1 == WriteHeader(w, code) IN [w1 EXCEPT !.msgs = Append(@, msg)]

writeServerError(w) == HttpError(w, "Unexpected error encountered", 500)

writeOCIError(code, w, statusCode) == HttpError(w, code, statusCode)

\* what the client receives when the handler returns
Response(w) ==
    IF w.status = 0 /\ ~w.aborted THEN [WriteHeader(w, 200) EXCEPT !.calls = 0] ELSE w

(***************************************************************************)
(* Path parser.  A request URI is the sequence of components of            *)
(* strings.Split(strings.TrimPrefix(uri, "/v2/"), "/").                    *)
(***************************************************************************)
Keywords == {"blobs", "manifests", "tags", "referrers"}

RECURSIVE TakeUntilKeyword(_)
TakeUntilKeyword(u) ==
    IF u = <<>> \/ Head(u) \in Keywords THEN <<>>
    ELSE <<Head(u)>> \o TakeUntilKeyword(Tail(u))

\* parseName with the rule of the two-slash branch on every path
parseNameFirstOnly(u) ==
    IF Len(u) - 1 <= 1 THEN [err |-> TRUE, name |-> <<>>]
    ELSE [err |-> FALSE, name |-> <<u[1]>>]

parseName(u) ==
    LET paths == Len(u) - 1
    IN IF paths <= 1 THEN [err |-> TRUE, name |-> <<>>]
       ELSE IF paths = 2 THEN [err |-> FALSE, name |-> <<u[1]>>]
       ELSE [err |-> FALSE, name |-> TakeUntilKeyword(u)]

\* strings.TrimPrefix(r.RequestURI, "/v2/" + name)
Endpoint(u, name) == IF IsPrefix(name, u) THEN SubSeq(u, Len(name) + 1, Len(u)) ELSE u

(***************************************************************************)
(* The handler.  A request r has the method, the URI components, the query *)
(* values digest, mount and from, the Content-Range start (NoCR without    *)
(* the header), the body (Content-Length is its length), and nread, the    *)
(* number of bytes the one r.Body.Read of a PATCH returns.  A handler      *)
(* state st has the filesystem, the response writer, whether the handler   *)
(* has returned, and the number of uuids generated so far.                 *)
(***************************************************************************)
Return(st, w) == [st EXCEPT !.w = w, !.done = TRUE]

uuidGenerate(st) == [st EXCEPT !.nid = @ + 1]

\* strings.Contains(endpoint, "/blobs/sha256:")
ContainsBlobsSha(ep) ==
    \E i \in 1..(Len(ep) - 1) : ep[i] = "blobs" /\ ep[i + 1] \in DigestArgs

\* strings.Contains(endpoint, "/manifests/")
ContainsManifests(ep) == \E i \in 1..(Len(ep) - 1) : ep[i] = "manifests"

\* strings.Contains(endpoint, "/blobs/uploads/")
ContainsUploads(ep) ==
    \E i \in 1..(Len(ep) - 2) : ep[i] = "blobs" /\ ep[i + 1] = "uploads"

\* strings.Contains(endpoint, "/blobs/")
ContainsBlobs(ep) == \E i \in 1..(Len(ep) - 1) : ep[i] = "blobs"

HasQuery(r) ==
    r.digest # "" \/ r.mount # "" \/ r.from # <<>> \/ r.n # NoN \/ r.last # "" \/ r.qtail # ""

\* strings.HasSuffix(endpoint, "/blobs/uploads/")
HasSuffixUploads(r, ep) ==
    /\ ~HasQuery(r)
    /\ Len(ep) >= 3
    /\ SubSeq(ep, Len(ep) - 2, Len(ep)) = <<"blobs", "uploads", "">>

\* r.RequestURI + id
AppendToURI(u, id) == [u EXCEPT ![Len(u)] = @ \o id]

\* writeBodyToFile opening the destination without os.O_CREATE
writeBodyToFileNoCreate(st, destFile, body) ==
    IF ~IsFile(st.fs, destFile) THEN [st EXCEPT !.w = writeServerError(st.w)]
    ELSE [st EXCEPT !.fs = SetData(st.fs, destFile, body)]

writeBodyToFile(st, destFile, body) ==
    LET o == OpenFileCreate(st.fs, destFile)
        t == Truncate(o.fs, destFile)
    IN IF o.err \/ t.err THEN [st EXCEPT !.w = writeServerError(st.w)]
       ELSE [st EXCEPT !.fs = SetData(t.fs, destFile, body)]

writeBodyToFileWithLocation(st, destFile, body, name, digest) ==
    LET s1 == writeBodyToFile(st, destFile, body)
        w1 == IF ~validateBlob(s1.fs, destFile, digest)
              THEN HttpError(s1.w, "blob did not match length or digest", 400)
              ELSE s1.w
    IN [s1 EXCEPT !.w = WriteHeader(SetLocation(w1, Join(name, <<"blobs", digest>>)), 201)]

createFile(st, destFile) ==
    LET o == OpenFileCreate(st.fs, destFile)
        t == Truncate(o.fs, destFile)
    IN IF o.err \/ t.err THEN [st EXCEPT !.w = writeServerError(st.w)]
       ELSE [st EXCEPT !.fs = t.fs]

RECURSIVE findManifestFrom(_, _, _, _)
findManifestFrom(f, name, digest, names) ==
    IF names = <<>> THEN [err |-> FALSE, path |-> <<>>]
    ELSE LET de == Head(names)
             manifestPath == Join(name, <<de, "manifest.json">>)
             m == readFile(f, manifestPath)
         IN IF de = "_blobs" \/ ~IsDir(f, Join(name, <<de>>))
            THEN findManifestFrom(f, name, digest, Tail(names))
            ELSE IF m.err THEN [err |-> TRUE, path |-> <<>>]
            ELSE IF getDigest(m.b) = digest THEN [err |-> FALSE, path |-> manifestPath]
            ELSE findManifestFrom(f, name, digest, Tail(names))

findManifest(f, name, digest) ==
    LET files == ReadDir(f, name)
    IN IF files.err THEN [err |-> TRUE, path |-> <<>>]
       ELSE findManifestFrom(f, name, digest, files.names)

\* end-2: blob GET/HEAD
End2(r, name, ep, st) ==
    IF st.done \/ ~(r.method \in {"HEAD", "GET"} /\ ContainsBlobsSha(ep)) THEN st
    ELSE LET requestDigest == Last(ep)
             blobPath == Join(name, <<"_blobs", requestDigest>>)
             b == fileExists(st.fs, blobPath)
             content == readFile(st.fs, blobPath)
             w1 == SetContentDigest(st.w, requestDigest)
         IN IF ~matchesDigest(requestDigest)
            THEN Return(st, writeOCIError("BLOB_UNKNOWN", st.w, 404))
            ELSE IF b.err THEN Return(st, writeServerError(st.w))
            ELSE IF ~b.b THEN [st EXCEPT !.w = WriteHeader(st.w, 404)]
            ELSE IF r.method = "GET"
                 THEN IF content.err THEN Return(st, writeServerError(w1))
                      ELSE [st EXCEPT !.w = WriteHeader(WriteTo(w1, content.b), 200)]
                 ELSE [st EXCEPT !.w = WriteHeader(w1, 200)]

\* end-3: manifest GET/HEAD
End3(r, name, ep, st) ==
    IF st.done \/ ~(r.method \in {"HEAD", "GET"} /\ ContainsManifests(ep)) THEN st
    ELSE LET lastPart == Last(ep)
             isRef == matchesRef(lastPart)
             isDigest == matchesDigest(lastPart)
             found == findManifest(st.fs, name, lastPart)
             manifestPath == IF isRef THEN Join(name, <<lastPart, "manifest.json">>)
                             ELSE found.path
             b == fileExists(st.fs, manifestPath)
             content == readFile(st.fs, manifestPath)
         IN IF ~(isRef \/ isDigest)
            THEN Return(st, writeOCIError("MANIFEST_INVALID", st.w, 404))
            ELSE IF ~isRef /\ found.err THEN Return(st, WriteHeader(st.w, 404))
            ELSE IF ~isRef /\ found.path = <<>>
                 THEN Return(st, writeOCIError("MANIFEST_UNKNOWN", st.w, 404))
            ELSE IF b.err THEN Return(st, writeServerError(st.w))
            ELSE IF ~b.b THEN [st EXCEPT !.w = WriteHeader(st.w, 404)]
            ELSE IF r.method = "GET"
                 THEN IF content.err THEN Return(st, writeServerError(st.w))
                      ELSE [st EXCEPT !.w = WriteHeader(WriteTo(st.w, content.b), 200)]
                 ELSE [st EXCEPT !.w = WriteHeader(st.w, 200)]

\* end-4a: upload init
End4a(r, name, ep, st) ==
    IF st.done \/ ~(r.method = "POST" /\ HasSuffixUploads(r, ep)) THEN st
    ELSE LET s1 == uuidGenerate(st)
         IN [s1 EXCEPT !.w = WriteHeader(SetLocation(st.w, AppendToURI(r.uri, SessionId(s1.nid))), 202)]

\* end-4b: single POST with digest
End4b(r, name, ep, st) ==
    IF st.done \/ ~(r.method = "POST" /\ ContainsUploads(ep) /\ r.mount = "") THEN st
    ELSE IF r.digest = "" THEN Return(st, HttpError(st.w, "Digest missing", 400))
    ELSE LET destFile == Join(name, <<"_blobs", r.digest>>)
             s1 == writeBodyToFileWithLocation(st, destFile, r.body, name, r.digest)
         IN Return(s1, s1.w)

\* end-5 without the check "chunk already in registry?"
End5NoDuplicateCheck(r, name, ep, st) ==
    IF st.done \/ ~(r.method = "PATCH" /\ ContainsUploads(ep)) THEN st
    ELSE LET location == Last(ep)
             w0 == SetLocation(st.w, r.uri)
             i == Len(r.body)
             destFile == Join(name, <<"_blobs", location>>)
             s == r.cr
             o == OpenFileCreate(st.fs, destFile)
             data == o.fs.files[destFile]
             buf == [k \in 1..i |-> IF k <= r.nread THEN r.body[k] ELSE 0]
         IN IF r.cr = NoCR
            THEN LET s1 == createFile([st EXCEPT !.w = w0], destFile)
                 IN [s1 EXCEPT !.w = WriteHeader(s1.w, 202)]
            ELSE IF o.err THEN Return(st, writeServerError(w0))
            ELSE IF s > Len(data)
                 THEN Return([st EXCEPT !.fs = o.fs], WriteHeader(w0, 416))
            ELSE [st EXCEPT !.fs = SetData(o.fs, destFile, WriteAtBytes(data, buf, s)),
                            !.w = WriteHeader(SetRange(w0, 0, i - 1), 202)]

\* end-5: chunk PATCH
End5(r, name, ep, st) ==
    IF st.done \/ ~(r.method = "PATCH" /\ ContainsUploads(ep)) THEN st
    ELSE LET location == Last(ep)
             w0 == SetLocation(st.w, r.uri)
             i == Len(r.body)
             destFile == Join(name, <<"_blobs", location>>)
             s == r.cr
             o == OpenFileCreate(st.fs, destFile)
             data == o.fs.files[destFile]
             buf == [k \in 1..i |-> IF k <= r.nread THEN r.body[k] ELSE 0]
         IN IF r.cr = NoCR
            THEN LET s1 == createFile([st EXCEPT !.w = w0], destFile)
                 IN [s1 EXCEPT !.w = WriteHeader(s1.w, 202)]
            ELSE IF o.err THEN Return(st, writeServerError(w0))
            ELSE IF s > Len(data)
                 THEN Return([st EXCEPT !.fs = o.fs], WriteHeader(w0, 416))
            ELSE IF s + i <= Len(data)
                 THEN Return([st EXCEPT !.fs = o.fs], WriteHeader(w0, 416))
            ELSE [st EXCEPT !.fs = SetData(o.fs, destFile, WriteAtBytes(data, buf, s)),
                            !.w = WriteHeader(SetRange(w0, 0, i - 1), 202)]

\* end-6: upload PUT
End6(r, name, ep, st) ==
    IF st.done \/ ~(r.method = "PUT" /\ ContainsUploads(ep)) THEN st
    ELSE LET location == Last(ep)
             sessionFile == Join(name, <<"_blobs", location>>)
             b == fileExists(st.fs, sessionFile).b
             rn == Rename(st.fs, sessionFile, Join(name, <<"_blobs", r.digest>>))
             mk == MkdirAll(st.fs, Join(name, <<"_blobs">>))
             destFile == Join(name, <<"_blobs", r.digest>>)
         IN IF b
            THEN Return([st EXCEPT !.fs = rn.fs],
                        WriteHeader(SetLocation(st.w, Join(name, <<"blobs", r.digest>>)), 201))
            ELSE IF mk.err THEN Return([st EXCEPT !.fs = mk.fs], writeServerError(st.w))
            ELSE writeBodyToFileWithLocation([st EXCEPT !.fs = mk.fs], destFile, r.body, name, r.digest)

\* end-7: manifest PUT
End7(r, name, ep, st) ==
    IF st.done \/ ~(r.method = "PUT" /\ ContainsManifests(ep)) THEN st
    ELSE LET requestRef == Last(ep)
             mk == MkdirAll(st.fs, Join(name, <<requestRef>>))
             destFile == Join(name, <<requestRef, "manifest.json">>)
             s1 == writeBodyToFile([st EXCEPT !.fs = mk.fs], destFile, r.body)
             buf == readFile(s1.fs, destFile)
         IN IF mk.err THEN Return([st EXCEPT !.fs = mk.fs], writeServerError(st.w))
            ELSE IF buf.err THEN Return(s1, writeServerError(s1.w))
            ELSE [s1 EXCEPT !.w = WriteHeader(SetLocation(s1.w, Join(name, <<"manifests", getDigest(buf.b)>>)), 201)]

\* the directory entries of a repository other than _blobs
getTags(f, path) ==
    LET files == ReadDir(f, path)
    IN [err |-> files.err, tags |-> SelectSeq(files.names, LAMBDA de : de # "_blobs")]

\* strings.HasSuffix(endpoint, "/tags/list"): the endpoint is cut from
\* r.RequestURI, which ends with the query when there is one
HasSuffixTagsList(r, ep) ==
    /\ Len(ep) >= 2
    /\ SubSeq(ep, Len(ep) - 1, Len(ep)) = <<"tags", "list">>
    /\ (~HasQuery(r) \/ r.qtail = "/tags/list")

\* slices.Index(tags, last), counted from 0; -1 when absent
Index(tags, last) ==
    IF \E k \in 1..Len(tags) : tags[k] = last
    THEN (CHOOSE k \in 1..Len(tags) : tags[k] = last /\ \A j \in 1..(k - 1) : tags[j] # last) - 1
    ELSE -1

\* cap(tags) after l appends to make([]string, 0)
RECURSIVE AppendCap(_)
AppendCap(l) == IF l <= 1 THEN l ELSE 2 * AppendCap((l + 1) \div 2)

TagList(name, tags) == [name |-> name, tags |-> tags]

\* end-8a: tags list without last
End8a(r, name, ep, st) ==
    IF st.done \/ ~(r.method = "GET" /\ HasSuffixTagsList(r, ep) /\ r.last = "") THEN st
    ELSE LET t == getTags(st.fs, name)
         IN IF ReadDir(st.fs, name).err
            THEN Return(st, writeOCIError("NAME_UNKNOWN", st.w, 404))
            ELSE IF t.err THEN Return(st, writeServerError(st.w))
            ELSE Return(st, WriteJSON(st.w, TagList(name, t.tags)))

\* end-8b: tags list with last (and n)
End8b(r, name, ep, st) ==
    IF st.done \/ ~(r.method = "GET" /\ HasSuffixTagsList(r, ep)) THEN st
    ELSE LET t == getTags(st.fs, name)
             i == Index(t.tags, r.last)
             from == IF r.last # "" THEN i ELSE 0
             tags1 == SubSeq(t.tags, from + 1, Len(t.tags))
             cap1 == AppendCap(Len(t.tags)) - from
             \* tags[:n] reads up to the capacity: entries past the length
             \* are the zero string
             tags2 == IF r.n # NoN
                      THEN [k \in 1..r.n |-> IF k <= Len(tags1) THEN tags1[k] ELSE ""]
                      ELSE tags1
         IN IF ReadDir(st.fs, name).err
            THEN Return(st, writeOCIError("NAME_UNKNOWN", st.w, 404))
            ELSE IF t.err THEN Return(st, writeServerError(st.w))
            ELSE IF r.last # "" /\ i = -1 THEN Return(st, Panic(st.w))
            ELSE IF r.n # NoN /\ (r.n < 0 \/ r.n > cap1) THEN Return(st, Panic(st.w))
            ELSE Return(st, WriteJSON(st.w, TagList(name, tags2)))

\* end-9: manifest DELETE
End9(r, name, ep, st) ==
    IF st.done \/ ~(r.method = "DELETE" /\ ContainsManifests(ep)) THEN st
    ELSE LET lastPart == Last(ep)
             manifestPath == Join(name, <<lastPart>>)
         IN IF ~(matchesRef(lastPart) \/ matchesDigest(lastPart))
            THEN Return(st, writeOCIError("MANIFEST_INVALID", st.w, 404))
            ELSE IF NotDir(st.fs, manifestPath) THEN Return(st, WriteHeader(st.w, 400))
            ELSE Return([st EXCEPT !.fs = RemoveAll(st.fs, manifestPath)], WriteHeader(st.w, 202))

\* end-10: blob DELETE
End10(r, name, ep, st) ==
    IF st.done \/ ~(r.method = "DELETE" /\ ContainsBlobs(ep)) THEN st
    ELSE LET requestDigest == Last(ep)
             blobPath == Join(name, <<"_blobs", requestDigest>>)
             b == fileExists(st.fs, blobPath)
         IN IF ~matchesDigest(requestDigest)
            THEN Return(st, writeOCIError("BLOB_UNKNOWN", st.w, 404))
            ELSE IF b.err THEN Return(st, writeServerError(st.w))
            ELSE IF b.b THEN Return([st EXCEPT !.fs = RemoveAll(st.fs, blobPath)], WriteHeader(st.w, 202))
            ELSE Return(st, WriteHeader(st.w, 404))

\* end-11: cross-repository mount
End11(r, name, ep, st) ==
    IF st.done \/ ~(r.method = "POST" /\ ContainsUploads(ep)) THEN st
    ELSE LET m == r.mount
             f == r.from
             old == Join(f, <<"_blobs", m>>)
             b == fileExists(st.fs, old)
             s1 == uuidGenerate(st)
             new == Join(name, <<"_blobs", m>>)
             mk == MkdirAll(st.fs, Join(name, <<"_blobs">>))
             ln == Link(mk.fs, old, new)
         IN IF b.err THEN Return(st, writeServerError(st.w))
            ELSE IF ~b.b \/ f = <<>>
                 THEN Return(s1, WriteHeader(SetLocation(st.w, Join(name, <<"blobs", "uploads", SessionId(s1.nid)>>)), 202))
            ELSE IF ln.err THEN Return([st EXCEPT !.fs = mk.fs], writeServerError(st.w))
            ELSE Return([st EXCEPT !.fs = ln.fs],
                        WriteHeader(SetLocation(st.w, Join(name, <<"blobs", m>>)), 201))

\* strings.Contains(endpoint, "/referrers/")
ContainsReferrers(ep) == \E i \in 1..(Len(ep) - 1) : ep[i] = "referrers"

\* end-12a: referrers (no request of the model carries artifactType)
End12a(r, name, ep, st) ==
    IF st.done \/ ~(r.method = "GET" /\ ContainsReferrers(ep)) THEN st
    ELSE Return(st, WriteHeader(st.w, 404))

\* end-12b: referrers, the same condition again
End12b(r, name, ep, st) ==
    IF st.done \/ ~(r.method = "GET" /\ ContainsReferrers(ep)) THEN st
    ELSE Return(st, WriteHeader(st.w, 404))

\* fileInfo.Size() of a directory is system-dependent: the size of an empty
\* directory on ext4
DirSize == 4096

\* os.Stat(p)
Stat(f, p) ==
    IF IsFile(f, p) THEN [err |-> FALSE, size |-> Len(f.files[p])]
    ELSE IF IsDir(f, p) THEN [err |-> FALSE, size |-> DirSize]
    ELSE [err |-> TRUE, size |-> 0]

\* end-13: upload status
End13(r, name, ep, st) ==
    IF st.done \/ ~(r.method = "GET" /\ ContainsUploads(ep)) THEN st
    ELSE LET location == Last(ep)
             destFile == Join(name, <<"_blobs", location>>)
             fileInfo == Stat(st.fs, destFile)
             l == fileInfo.size - 1
         IN IF fileInfo.err THEN Return(st, writeServerError(st.w))
            ELSE Return(st, WriteHeader(SetRange(SetLocation(st.w, r.uri), 0, l), 204))

\* the chain of matchers of the handler, in source order
Arms(r, name, ep, st) ==
    End13(r, name, ep,
     End12b(r, name, ep,
      End12a(r, name, ep,
       End11(r, name, ep,
        End10(r, name, ep,
         End9(r, name, ep,
          End8b(r, name, ep,
           End8a(r, name, ep,
            End7(r, name, ep,
             End6(r, name, ep,
              End5(r, name, ep,
               End4b(r, name, ep,
                End4a(r, name, ep,
                 End3(r, name, ep,
                  End2(r, name, ep, st)))))))))))))))

\* the function registered for "/v2/"
Handler(r, f, nid) ==
    LET st == [fs |-> f, w |-> NewWriter, done |-> FALSE, nid |-> nid]
        pn == parseName(r.uri)
    IN IF r.method = "GET" /\ r.uri = <<"">> THEN Return(st, WriteHeader(st.w, 200))
       ELSE IF pn.err THEN Return(st, writeServerError(st.w))
       ELSE IF ~matchesName(pn.name)
            THEN Return(st, writeOCIError("NAME_INVALID", st.w, 400))
       ELSE Arms(r, pn.name, Endpoint(r.uri, pn.name), st)

(***************************************************************************)
(* The requests of the clients.                                            *)
(***************************************************************************)
Request(method, uri, digest, mount, from, cr, body, nread) ==
    [method |-> method, uri |-> uri, digest |-> digest, mount |-> mount,
     from |-> from, cr |-> cr, body |-> body, nread |-> nread,
     n |-> NoN, last |-> "", qtail |-> ""]

UploadsURI(name) == name \o <<"blobs", "uploads", "">>

SessionURI(name, id) == name \o <<"blobs", "uploads", id>>

BlobURI(name, d) == name \o <<"blobs", d>>

ManifestURI(name, ref) == name \o <<"manifests", ref>>

TagsURI(name) == name \o <<"tags", "list">>

\* GET /v2/<name>/tags/list?n=<n>&last=<last>&x=<qtail>, each parameter
\* present when it is not NoN or ""
TagsRequest(name, n, last, qtail) ==
    [Request("GET", TagsURI(name), "", "", <<>>, NoCR, <<>>, 0)
        EXCEPT !.n = n, !.last = last, !.qtail = qtail]

NoRequest == [op |-> "none", sid |-> 0] @@ Request("", <<>>, "", "", <<>>, NoCR, <<>>, 0)

\* the number of bytes one Read of a body can return
ReadLens(body) == IF body = <<>> THEN {0} ELSE 1..Len(body)

(***************************************************************************)
(* History of the upload sessions, one entry per generated uuid: the       *)
(* repository it was issued for, whether it is still in flight, whether    *)
(* the client has followed the chunked protocol on it so far, the chunks   *)
(* sent that way and the chunks the server accepted with 202.              *)
(***************************************************************************)
NewSession(name) ==
    [name |-> name, open |-> TRUE, conforming |-> TRUE, nchunks |-> 0,
     sent |-> <<>>, accepted |-> <<>>]

SessionOf(r) ==
    LET S == {i \in 1..Len(sess) : /\ r.uri = SessionURI(sess[i].name, SessionId(i))
                                   /\ sess[i].open}
    IN IF S = {} THEN 0 ELSE CHOOSE i \in S : TRUE

Track(r, w, nid) ==
    LET i == SessionOf(r)
        pn == parseName(r.uri)
        s0 == IF nid > Len(sess) THEN Append(sess, NewSession(pn.name)) ELSE sess
    IN IF i = 0 THEN s0
       ELSE IF r.method = "PATCH"
            THEN [s0 EXCEPT ![i].conforming = @ /\ r.cr = (IF s0[i].nchunks = 0 THEN NoCR ELSE Len(s0[i].sent)),
                            ![i].nchunks = @ + 1,
                            ![i].sent = @ \o r.body,
                            ![i].accepted = IF w.status = 202 THEN @ \o r.body ELSE @]
       ELSE IF r.method = "PUT" THEN [s0 EXCEPT ![i].open = FALSE]
       ELSE s0

Serve(op, r) ==
    \E out \in {Handler(r, fs, Len(sess))} :
       /\ out.nid <= MaxSessions
       /\ fs' = out.fs
       /\ resp' = Response(out.w)
       /\ req' = [op |-> op, sid |-> SessionOf(r)] @@ r
       /\ sess' = Track(r, Response(out.w), out.nid)
       /\ nreq' = nreq + 1
       /\ UNCHANGED <<wr, parsed>>

\* the session ids a client can name: the uuids generated so far, and u0,
\* an id of its own making that uuid.Generate never returns
Locations == {SessionId(i) : i \in 0..Len(sess)}

UploadInit ==
    \E n \in Repos :
        /\ nreq < MaxRequests
        /\ Serve("UploadInit", Request("POST", UploadsURI(n), "", "", <<>>, NoCR, <<>>, 0))

SinglePost ==
    \E n \in Repos, d \in DigestArgs, b \in Bodies :
        /\ nreq < MaxRequests
        /\ Serve("SinglePost", Request("POST", UploadsURI(n), d, "", <<>>, NoCR, b, 0))

PatchFirst ==
    \E n \in Repos, id \in Locations, b \in Bodies :
        /\ nreq < MaxRequests
        /\ Serve("PatchFirst", Request("PATCH", SessionURI(n, id), "", "", <<>>, NoCR, b, 0))

PatchChunk ==
    \E n \in Repos, id \in Locations, b \in Bodies, s \in 0..MaxLen :
        \E k \in ReadLens(b) :
            /\ nreq < MaxRequests
            /\ Serve("PatchChunk", Request("PATCH", SessionURI(n, id), "", "", <<>>, s, b, k))

UploadPut ==
    \E n \in Repos, id \in Locations, d \in DigestArgs, b \in Bodies :
        /\ nreq < MaxRequests
        /\ Serve("UploadPut", Request("PUT", SessionURI(n, id), d, "", <<>>, NoCR, b, 0))

ManifestPut ==
    \E n \in Repos, t \in Tags, b \in Bodies :
        /\ nreq < MaxRequests
        /\ Serve("ManifestPut", Request("PUT", ManifestURI(n, t), "", "", <<>>, NoCR, b, 0))

ManifestGet ==
    \E n \in Repos, t \in Tags \cup DigestArgs, m \in {"GET", "HEAD"} :
        /\ nreq < MaxRequests
        /\ Serve("ManifestGet", Request(m, ManifestURI(n, t), "", "", <<>>, NoCR, <<>>, 0))

BlobGet ==
    \E n \in Repos, d \in DigestArgs, m \in {"GET", "HEAD"} :
        /\ nreq < MaxRequests
        /\ Serve("BlobGet", Request(m, BlobURI(n, d), "", "", <<>>, NoCR, <<>>, 0))

BlobDelete ==
    \E n \in Repos, d \in DigestArgs :
        /\ nreq < MaxRequests
        /\ Serve("BlobDelete", Request("DELETE", BlobURI(n, d), "", "", <<>>, NoCR, <<>>, 0))

Mount ==
    \E n \in Repos, f \in Repos, d \in DigestArgs :
        /\ nreq < MaxRequests
        /\ Serve("Mount", Request("POST", UploadsURI(n), "", d, f, NoCR, <<>>, 0))

\* the values of n, of last (v0 is a tag no repository has) and of a
\* trailing query parameter
Ns == {NoN} \cup (0..MaxN)

Lasts == {"", "v0"} \cup Tags

QueryTails == {"", "/tags/list"}

TagsList ==
    \E name \in Repos, n \in Ns, last \in Lasts, qtail \in QueryTails :
        /\ nreq < MaxRequests
        /\ Serve("TagsList", TagsRequest(name, n, last, qtail))

ManifestDelete ==
    \E name \in Repos, ref \in Tags \cup DigestArgs :
        /\ nreq < MaxRequests
        /\ Serve("ManifestDelete", Request("DELETE", ManifestURI(name, ref), "", "", <<>>, NoCR, <<>>, 0))

(***************************************************************************)
(* Requests served in parallel.  writeBodyToFile opens (and truncates) the *)
(* destination, then copies the body one Read of at most BufSize bytes at  *)
(* a time; other handlers run between these steps.  wr is the upload that  *)
(* is inside writeBodyToFile.                                              *)
(***************************************************************************)
BufSize == 1024

Idle == [active |-> FALSE, op |-> "none", r |-> Request("", <<>>, "", "", <<>>, NoCR, <<>>, 0),
         name |-> <<>>, dest |-> <<>>, rest |-> <<>>]

\* writeBodyToFile up to the copy loop: the file is open and empty
OpenForBody(f, destFile) ==
    LET o == OpenFileCreate(f, destFile)
        t == Truncate(o.fs, destFile)
    IN [err |-> o.err \/ t.err, fs |-> t.fs]

BeginBody(op, r, name, f) ==
    LET destFile == Join(name, <<"_blobs", r.digest>>)
        o == OpenForBody(f, destFile)
    IN /\ nreq < MaxRequests
       /\ ~wr.active
       /\ ~o.err
       /\ fs' = o.fs
       /\ wr' = [active |-> TRUE, op |-> op, r |-> r, name |-> name, dest |-> destFile, rest |-> r.body]
       /\ nreq' = nreq + 1
       /\ UNCHANGED <<sess, req, resp, parsed>>

\* end-4b up to the copy loop
BeginSinglePost ==
    \E n \in Repos, d \in DigestArgs, b \in Bodies :
        /\ IsDir(fs, Join(n, <<"_blobs">>))
        /\ BeginBody("SinglePost", Request("POST", UploadsURI(n), d, "", <<>>, NoCR, b, 0), n, fs)

\* end-6 without a session file, up to the copy loop
BeginMonolithicPut ==
    \E n \in Repos, id \in Locations, d \in DigestArgs, b \in Bodies :
        LET mk == MkdirAll(fs, Join(n, <<"_blobs">>))
        IN /\ ~fileExists(fs, Join(n, <<"_blobs", id>>)).b
           /\ ~mk.err
           /\ BeginBody("UploadPut", Request("PUT", SessionURI(n, id), d, "", <<>>, NoCR, b, 0), n, mk.fs)

\* one turn of the copy loop: n bytes read, f.Write(buf[0:n])
WriteStep ==
    \E k \in 1..Min(BufSize, Len(wr.rest)) :
        /\ wr.active
        /\ IsFile(fs, wr.dest)
        /\ fs' = SetData(fs, wr.dest, fs.files[wr.dest] \o SubSeq(wr.rest, 1, k))
        /\ wr' = [wr EXCEPT !.rest = SubSeq(@, k + 1, Len(@))]
        /\ UNCHANGED <<sess, req, resp, nreq, parsed>>

\* io.EOF: the loop ends, the blob is validated and the response written
FinishBody ==
    LET w1 == IF ~validateBlob(fs, wr.dest, wr.r.digest)
              THEN HttpError(NewWriter, "blob did not match length or digest", 400)
              ELSE NewWriter
        w2 == WriteHeader(SetLocation(w1, Join(wr.name, <<"blobs", wr.r.digest>>)), 201)
    IN /\ wr.active
       /\ wr.rest = <<>>
       /\ resp' = Response(w2)
       /\ req' = [op |-> wr.op, sid |-> SessionOf(wr.r)] @@ wr.r
       /\ sess' = Track(wr.r, Response(w2), Len(sess))
       /\ wr' = Idle
       /\ UNCHANGED <<fs, nreq, parsed>>

\* end-6 with the session file present: the rename
FinalizePut ==
    \E n \in Repos, id \in Locations, d \in DigestArgs, b \in Bodies :
        /\ nreq < MaxRequests
        /\ fileExists(fs, Join(n, <<"_blobs", id>>)).b
        /\ Serve("UploadPut", Request("PUT", SessionURI(n, id), d, "", <<>>, NoCR, b, 0))

\* parseName has not been called
NoParse == [done |-> FALSE, err |-> FALSE, name |-> <<>>]

Init ==
    /\ fs = EmptyFS
    /\ sess = <<>>
    /\ req = NoRequest
    /\ resp = Response(NewWriter)
    /\ nreq = 0
    /\ wr = Idle
    /\ parsed = NoParse

Next ==
    \/ UploadInit
    \/ SinglePost
    \/ PatchFirst
    \/ PatchChunk
    \/ UploadPut
    \/ ManifestPut
    \/ ManifestGet
    \/ BlobGet
    \/ BlobDelete
    \/ Mount

Spec == Init /\ [][Next]_vars

NextConc ==
    \/ BeginSinglePost
    \/ BeginMonolithicPut
    \/ WriteStep
    \/ FinishBody
    \/ PatchFirst
    \/ PatchChunk
    \/ FinalizePut
    \/ BlobGet

SpecConc == Init /\ [][NextConc]_vars

\* the manifest and tag endpoints, with the uploads that create _blobs and
\* the nested repository
NextTags ==
    \/ ManifestPut
    \/ ManifestGet
    \/ ManifestDelete
    \/ TagsList
    \/ UploadPut

SpecTags == Init /\ [][NextTags]_vars

(***************************************************************************)
(* Chunked uploads to repositories that have held blobs before: the        *)
(* _blobs directories exist.                                               *)
(***************************************************************************)
InitChunks ==
    /\ fs = [EmptyFS EXCEPT !.dirs = UNION {Prefixes(Join(n, <<"_blobs">>)) : n \in Repos}]
    /\ sess = <<>>
    /\ req = NoRequest
    /\ resp = Response(NewWriter)
    /\ nreq = 0
    /\ wr = Idle
    /\ parsed = NoParse

NextChunks ==
    \/ UploadInit
    \/ PatchFirst
    \/ PatchChunk
    \/ UploadPut
    \/ BlobGet

SpecChunks == InitChunks /\ [][NextChunks]_vars

(***************************************************************************)
(* The path parser on its own.  The URI of the request is drawn from       *)
(* ParseURIs: a name of up to MaxNameLen components, then an endpoint      *)
(* keyword, then nothing or the rest of an endpoint.                       *)
(***************************************************************************)
NamesOver(C) == UNION {SeqsOfLen(C, k) : k \in 1..MaxNameLen}

Rests == {<<>>, <<"x">>, <<"uploads", "">>}

ParseURIs ==
    {x \o <<kw>> \o rest : x \in NamesOver({"a", "b"}), kw \in Keywords, rest \in Rests}
    \cup {x \o <<"blobs", "uploads", "">> : x \in NamesOver({"a", "b", "blobs", "tags"})}

InitParse ==
    /\ fs = EmptyFS
    /\ sess = <<>>
    /\ req \in {[NoRequest EXCEPT !.op = "input", !.uri = u] : u \in ParseURIs}
    /\ resp = Response(NewWriter)
    /\ nreq = 0
    /\ wr = Idle
    /\ parsed = NoParse

\* name, err := parseName(r.RequestURI)
ParseName ==
    /\ ~parsed.done
    /\ parsed' = [done |-> TRUE] @@ parseName(req.uri)
    /\ UNCHANGED <<fs, sess, req, resp, nreq, wr>>

\* the handler called with a GET of the URI
Route ==
    /\ nreq = 0
    /\ Serve("Route", Request("GET", req.uri, "", "", <<>>, NoCR, <<>>, 0))

NextParse ==
    \/ ParseName
    \/ Route

SpecParse == InitParse /\ [][NextParse]_vars

(***************************************************************************)
(* What a client observes, and the files behind it.                        *)
(***************************************************************************)
Get(f, uri) == Response(Handler(Request("GET", uri, "", "", <<>>, NoCR, <<>>, 0), f, 0).w)

BlobPath(name, d) == Join(name, <<"_blobs", d>>)

FileData(f, p) == IF IsFile(f, p) THEN f.files[p] ELSE <<>>

SessionFile(i) == Join(sess[i].name, <<"_blobs", SessionId(i)>>)

\* the repository and the last component of the request that was served last
ReqName == parseName(req.uri).name

(***************************************************************************)
(* C1: in every reachable state every file of <name>/_blobs/ whose name is *)
(* a digest has content whose sha256, formatted sha256:<hex>, is that      *)
(* name.                                                                   *)
(***************************************************************************)
C1_BlobNameIsContentDigest ==
    \A n \in Repos, d \in DigestArgs :
        IsFile(fs, BlobPath(n, d)) => getDigest(fs.files[BlobPath(n, d)]) = d

(***************************************************************************)
(* C2: a PUT (without a trailing chunk) to an existing session with        *)
(* digest=d renames the session file to <name>/_blobs/<d> and returns 201  *)
(* only when the sha256 of the session file is d; otherwise the response   *)
(* is an error, the session file stays and no file appears under <d>.      *)
(***************************************************************************)
C2_FinalizeVerifiesDigest ==
    [][\A n \in Repos, i \in 0..MaxSessions :
          LET sf == BlobPath(n, SessionId(i))
              df == BlobPath(n, req'.digest)
          IN (/\ req'.op = "UploadPut"
              /\ req'.uri = SessionURI(n, SessionId(i))
              /\ req'.body = <<>>
              /\ IsFile(fs, sf))
             => IF getDigest(fs.files[sf]) = req'.digest
                THEN /\ resp'.status = 201
                     /\ ~IsFile(fs', sf)
                     /\ FileData(fs', df) = fs.files[sf]
                ELSE /\ resp'.status \in 400..499
                     /\ fs' = fs]_vars

(***************************************************************************)
(* C3: an upload init, a first PATCH of B1 without Content-Range, PATCHes  *)
(* of B2..Bk with contiguous Content-Range, and a PUT with                 *)
(* digest D = sha256(B1||...||Bk) returns 201, and GET of the blob <D>     *)
(* then returns 200 with exactly B1||...||Bk.                              *)
(***************************************************************************)
C3_ChunkedUploadRoundTrip ==
    \A i \in 1..Len(sess) :
        (/\ req.op = "UploadPut"
         /\ req.sid = i
         /\ req.body = <<>>
         /\ sess[i].conforming
         /\ sess[i].nchunks >= 1
         /\ req.digest = getDigest(sess[i].sent))
        => /\ resp.status = 201
           /\ Get(fs, BlobURI(sess[i].name, req.digest)).status = 200
           /\ Get(fs, BlobURI(sess[i].name, req.digest)).body = sess[i].sent

(***************************************************************************)
(* C4: monolithic push and pull.  POST /v2/<name>/blobs/uploads/ returns   *)
(* 202 with Location /v2/<name>/blobs/uploads/<session id>; a PUT to that  *)
(* Location with digest=sha256(B) and body B returns 201 with Location     *)
(* /v2/<name>/blobs/<digest>; a GET of that blob then returns 200 with     *)
(* body B.  Checked for every body in Bodies, the repositories a/b and     *)
(* a/b/c, and every state the other requests can leave the storage in.     *)
(***************************************************************************)
C4_MonolithicRoundTrip ==
    /\ req.op = "UploadInit"
       => /\ resp.status = 202
          /\ resp.sent.location = SessionURI(ReqName, SessionId(Len(sess)))
    /\ \A i \in 1..Len(sess) :
          (/\ req.op = "UploadPut"
           /\ req.sid = i
           /\ sess[i].nchunks = 0
           /\ req.digest = getDigest(req.body))
          => /\ resp.status = 201
             /\ resp.sent.location = BlobURI(sess[i].name, req.digest)
             /\ Get(fs, BlobURI(sess[i].name, req.digest)).status = 200
             /\ Get(fs, BlobURI(sess[i].name, req.digest)).body = req.body

\* a monolithic PUT of a non-empty body has been served on an issued session
C4_Witness ==
    \E i \in 1..Len(sess) :
        /\ req.op = "UploadPut"
        /\ req.sid = i
        /\ sess[i].nchunks = 0
        /\ req.body # <<>>
        /\ req.digest = getDigest(req.body)
        /\ resp.status = 201
        /\ Get(fs, BlobURI(sess[i].name, req.digest)).body = req.body

(***************************************************************************)
(* C5: after a manifest PUT that returns 201 with Location                 *)
(* /v2/<name>/manifests/<digest>, GET by that digest returns 200 with the  *)
(* bytes of the PUT body, whatever else is in the storage root.            *)
(***************************************************************************)
C5_ManifestPutGetByDigest ==
    (req.op = "ManifestPut" /\ resp.status = 201)
    => /\ resp.sent.location = ManifestURI(ReqName, getDigest(req.body))
       /\ Get(fs, resp.sent.location).status = 200
       /\ Get(fs, resp.sent.location).body = req.body

(***************************************************************************)
(* C6: whenever blob D exists in repository A, a mount of D from A into B  *)
(* returns 201 with Location /v2/B/blobs/D, and GET /v2/B/blobs/D then     *)
(* returns 200 with the bytes of GET /v2/A/blobs/D, also when B already    *)
(* holds D.  Stated for B other than A.                                    *)
(***************************************************************************)
C6_MountExistingBlob ==
    [][\A a \in Repos, b \in Repos, d \in DigestArgs :
          (/\ req'.op = "Mount"
           /\ a # b
           /\ req'.uri = UploadsURI(b)
           /\ req'.from = a
           /\ req'.mount = d
           /\ IsFile(fs, BlobPath(a, d)))
          => /\ resp'.status = 201
             /\ resp'.sent.location = BlobURI(b, d)
             /\ Get(fs', BlobURI(b, d)).status = 200
             /\ Get(fs', BlobURI(b, d)).body = Get(fs', BlobURI(a, d)).body]_vars

(***************************************************************************)
(* C7: a PATCH with Content-Range s-e whose start s is greater than the    *)
(* current size of the session returns 416 and leaves the session file as  *)
(* it was: it exists afterwards iff it existed before, with the same       *)
(* content.  Stated for the sessions of a repository whose _blobs          *)
(* directory exists.                                                       *)
(***************************************************************************)
C7_PatchBeyondEndRejected ==
    [][\A i \in 1..Len(sess) :
          (/\ req'.op = "PatchChunk"
           /\ req'.sid = i
           /\ IsDir(fs, Join(sess[i].name, <<"_blobs">>))
           /\ req'.cr > Len(FileData(fs, SessionFile(i))))
          => /\ resp'.status = 416
             /\ IsFile(fs', SessionFile(i)) = IsFile(fs, SessionFile(i))
             /\ FileData(fs', SessionFile(i)) = FileData(fs, SessionFile(i))]_vars

(***************************************************************************)
(* C8: while an upload of blob B under its digest is being served, a       *)
(* concurrent GET of that digest never returns 200 with anything but the   *)
(* complete B.                                                             *)
(***************************************************************************)
C8_NoPartialBlobObserved ==
    (/\ wr.active
     /\ wr.r.digest = getDigest(wr.r.body)
     /\ req.op = "BlobGet"
     /\ req.method = "GET"
     /\ req.uri = BlobURI(wr.name, wr.r.digest)
     /\ resp.status = 200)
    => resp.body = wr.r.body

(***************************************************************************)
(* C9: a stored blob is immutable: when GET of a blob returns bytes X, it  *)
(* returns X after every further request too, or 404 after a DELETE of     *)
(* that blob.                                                              *)
(***************************************************************************)
C9_BlobImmutable ==
    [][\A n \in Repos, d \in DigestArgs :
          Get(fs, BlobURI(n, d)).status = 200
          => \/ /\ Get(fs', BlobURI(n, d)).status = 200
                /\ Get(fs', BlobURI(n, d)).body = Get(fs, BlobURI(n, d)).body
             \/ /\ req'.op = "BlobDelete"
                /\ req'.uri = BlobURI(n, d)
                /\ Get(fs', BlobURI(n, d)).status = 404]_vars

(***************************************************************************)
(* C10: while a session is in flight, its file holds exactly the chunks    *)
(* that were accepted with 202, in the order accepted, from offset 0: its  *)
(* size is the sum of their lengths.                                       *)
(***************************************************************************)
C10_SessionHoldsAcceptedChunks ==
    \A i \in 1..Len(sess) :
        sess[i].open => FileData(fs, SessionFile(i)) = sess[i].accepted

(***************************************************************************)
(* C11: every PATCH of a non-empty chunk on an issued session that is      *)
(* accepted with 202 returns the Location of the session unchanged and the *)
(* Range header 0-<size of the session file after the write, minus 1>,     *)
(* for the first chunk and for every later chunk.                          *)
(***************************************************************************)
C11_PatchRangeIsLastByte ==
    \A i \in 1..Len(sess) :
        (/\ req.op \in {"PatchFirst", "PatchChunk"}
         /\ req.sid = i
         /\ req.body # <<>>
         /\ resp.status = 202)
        => /\ resp.sent.location = req.uri
           /\ resp.sent.range = <<0, Len(FileData(fs, SessionFile(i))) - 1>>

(***************************************************************************)
(* C12: single-POST upload.  In every state of the repository, also one    *)
(* without blobs, POST /v2/<name>/blobs/uploads/?digest=<d> with a body B  *)
(* whose sha256 is d returns 201, and GET of the blob <d> then returns 200 *)
(* with content B.                                                         *)
(***************************************************************************)
C12_SinglePostRoundTrip ==
    (req.op = "SinglePost" /\ req.digest = getDigest(req.body))
    => /\ resp.status = 201
       /\ Get(fs, BlobURI(ReqName, req.digest)).status = 200
       /\ Get(fs, BlobURI(ReqName, req.digest)).body = req.body

(***************************************************************************)
(* The tags of a repository as a client knows them: the references it has  *)
(* a tag directory for, in sorted order.                                   *)
(***************************************************************************)
TagsOf(f, name) == SortNames({t \in Tags : IsDir(f, Join(name, <<t>>))})

After(tags, t) == SelectSeq(tags, LAMBDA x : Rank(x) > Rank(t))

FirstN(tags, n) == SubSeq(tags, 1, Min(n, Len(tags)))

(***************************************************************************)
(* C13: a tags list with last=<t>, t a tag of the repository, and no n     *)
(* returns 200 with the sorted tags that come after t: t itself is not in  *)
(* the result.                                                             *)
(***************************************************************************)
C13_TagsListAfterLast ==
    (/\ req.op = "TagsList"
     /\ req.n = NoN
     /\ req.last \in Tags
     /\ IsDir(fs, Join(ReqName, <<req.last>>)))
    => /\ resp.status = 200
       /\ resp.doc = <<TagList(ReqName, After(TagsOf(fs, ReqName), req.last))>>

(***************************************************************************)
(* C14: a tags list with n=<k> returns 200 with at most k entries, the     *)
(* first k of the sorted tags (after last, when last is a tag of the       *)
(* repository); when k exceeds the number of tags the result is all of     *)
(* them and the request does not fail.                                     *)
(***************************************************************************)
C14_TagsListFirstN ==
    (/\ req.op = "TagsList"
     /\ req.n # NoN
     /\ IsDir(fs, ReqName)
     /\ req.last # "" => IsDir(fs, Join(ReqName, <<req.last>>)))
    => /\ resp.status = 200
       /\ resp.doc = <<TagList(ReqName,
                               FirstN(IF req.last = "" THEN TagsOf(fs, ReqName)
                                      ELSE After(TagsOf(fs, ReqName), req.last), req.n))>>

(***************************************************************************)
(* C15: DELETE /v2/<name>/manifests/<digest>, when a tag directory of the  *)
(* repository holds a manifest with that digest, returns 202 and removes   *)
(* the first such tag directory: that tag no longer resolves by reference  *)
(* and is no longer in the tags list.                                      *)
(***************************************************************************)
C15_DeleteByDigestRemovesTag ==
    [][\A name \in Repos, d \in DigestArgs :
          LET holders == SelectSeq(TagsOf(fs, name),
                             LAMBDA t : /\ IsFile(fs, Join(name, <<t, "manifest.json">>))
                                        /\ getDigest(fs.files[Join(name, <<t, "manifest.json">>)]) = d)
              tagsAfter == Handler(TagsRequest(name, NoN, "", ""), fs', 0).w.doc
          IN (/\ req'.op = "ManifestDelete"
              /\ req'.uri = ManifestURI(name, d)
              /\ holders # <<>>)
             => /\ resp'.status = 202
                /\ Get(fs', ManifestURI(name, Head(holders))).status = 404
                /\ \A k \in 1..Len(tagsAfter) :
                      \A j \in 1..Len(tagsAfter[k].tags) : tagsAfter[k].tags[j] # Head(holders)]_vars

\* a manifest is stored in the repository under the reference, or under some
\* tag with the digest
ManifestStored(f, name, ref) ==
    \/ ref \in Tags /\ IsFile(f, Join(name, <<ref, "manifest.json">>))
    \/ /\ ref \in DigestArgs
       /\ \E t \in Tags : /\ IsFile(f, Join(name, <<t, "manifest.json">>))
                          /\ getDigest(f.files[Join(name, <<t, "manifest.json">>)]) = ref

(***************************************************************************)
(* C16: a manifest DELETE returns 202 only when a manifest was found and   *)
(* removed; a DELETE by a reference or digest that matches no stored       *)
(* manifest returns 404 and leaves the storage as it was.                  *)
(***************************************************************************)
C16_DeleteMissingManifestIs404 ==
    [][\A name \in Repos, ref \in Tags \cup DigestArgs :
          (req'.op = "ManifestDelete" /\ req'.uri = ManifestURI(name, ref))
          => IF ManifestStored(fs, name, ref)
             THEN resp'.status = 202 => fs' # fs
             ELSE resp'.status = 404 /\ fs' = fs]_vars

(***************************************************************************)
(* C17: a request from whose URI no repository name can be extracted is a  *)
(* validation failure, and no validation failure is answered with 500.     *)
(***************************************************************************)
C17_ValidationNever500 ==
    (req.op = "Route" /\ parseName(req.uri).err) => resp.status # 500

\* the URI is /v2/<X>/blobs/uploads/ with X of two or more components
IsUploadsURI(u) ==
    Len(u) >= 5 /\ SubSeq(u, Len(u) - 2, Len(u)) = <<"blobs", "uploads", "">>

UploadsName(u) == SubSeq(u, 1, Len(u) - 3)

(***************************************************************************)
(* C18 as stated: for every X of the name grammar with two or more         *)
(* components, also one with a component blobs, manifests, tags or         *)
(* referrers, parseName("/v2/" + X + "/blobs/uploads/") returns exactly X. *)
(***************************************************************************)
C18_ParseNameAnyName ==
    (parsed.done /\ IsUploadsURI(req.uri))
    => ~parsed.err /\ parsed.name = UploadsName(req.uri)

(***************************************************************************)
(* C18 amended: for every X of the name grammar with two or more           *)
(* components, none of which is blobs, manifests, tags or referrers,       *)
(* parseName("/v2/" + X + "/blobs/uploads/") returns exactly X.            *)
(***************************************************************************)
C18_ParseNameUnreservedName ==
    (/\ parsed.done
     /\ IsUploadsURI(req.uri)
     /\ \A k \in 1..Len(UploadsName(req.uri)) : UploadsName(req.uri)[k] \notin Keywords)
    => ~parsed.err /\ parsed.name = UploadsName(req.uri)

\* parseName has returned the three-component name of an uploads URI
C18_Witness ==
    /\ parsed.done
    /\ req.uri = <<"a", "b", "a", "blobs", "uploads", "">>
    /\ ~parsed.err
    /\ parsed.name = <<"a", "b", "a">>

\* the position of the first endpoint keyword of the URI, 0 without one
FirstKeyword(u) ==
    IF \E k \in 1..Len(u) : u[k] \in Keywords
    THEN CHOOSE k \in 1..Len(u) : u[k] \in Keywords /\ \A j \in 1..(k - 1) : u[j] \notin Keywords
    ELSE 0

(***************************************************************************)
(* C19: for every URI /v2/<c1>/.../<ck>/<kw>[/<rest>], kw the first        *)
(* component that is blobs, manifests, tags or referrers and k at least 2, *)
(* parseName returns c1/.../ck, whatever number of slashes the URI has.    *)
(***************************************************************************)
C19_ParseNameOneRule ==
    (parsed.done /\ FirstKeyword(req.uri) >= 3)
    => /\ ~parsed.err
       /\ parsed.name = SubSeq(req.uri, 1, FirstKeyword(req.uri) - 1)

(***************************************************************************)
(* C20: a PATCH with Content-Range start-end and a non-empty body whose    *)
(* bytes [start, start+Content-Length) are all present in the session file *)
(* already (a chunk submitted again) returns 416 and leaves the storage,   *)
(* the session file included, as it was.                                   *)
(***************************************************************************)
C20_DuplicateChunkRejected ==
    [][\A n \in Repos, i \in 0..MaxSessions :
          (/\ req'.op = "PatchChunk"
           /\ req'.uri = SessionURI(n, SessionId(i))
           /\ req'.body # <<>>
           /\ IsFile(fs, BlobPath(n, SessionId(i)))
           /\ req'.cr + Len(req'.body) <= Len(fs.files[BlobPath(n, SessionId(i))]))
          => /\ resp'.status = 416
             /\ fs' = fs]_vars

\* a chunk of an issued session, accepted before, has been sent again and
\* rejected
C20_Witness ==
    \E i \in 1..Len(sess) :
        /\ req.op = "PatchChunk"
        /\ req.sid = i
        /\ req.body # <<>>
        /\ sess[i].nchunks >= 2
        /\ req.cr + Len(req.body) <= Len(FileData(fs, SessionFile(i)))
        /\ resp.status = 416

(***************************************************************************)
(* The layout of the storage: the subdirectories of a repository, and the  *)
(* repositories that hold something (a _blobs directory or a tag           *)
(* directory of their own).                                                *)
(***************************************************************************)
Subdirs(f, p) == {q \in f.dirs : Len(q) = Len(p) + 1 /\ IsPrefix(p, q)}

Used(f, name) ==
    \/ IsDir(f, Join(name, <<"_blobs">>))
    \/ \E t \in Tags : IsDir(f, Join(name, <<t>>))

(***************************************************************************)
(* C21: in every reachable state, every subdirectory of a repository in    *)
(* use, other than _blobs, is a tag directory that contains manifest.json; *)
(* this with the repositories a/b and a/b/c both in use and with blobs     *)
(* uploaded to them.                                                       *)
(***************************************************************************)
C21_SubdirsAreTagDirs ==
    \A name \in Repos :
        Used(fs, name)
        => \A q \in Subdirs(fs, name) :
              Last(q) # "_blobs" => IsFile(fs, Join(q, <<"manifest.json">>))

(***************************************************************************)
(* C22: a final PUT with digest=<d> and a non-empty body, sent while the   *)
(* session file exists, appends the body to the session file before        *)
(* finalizing: the blob stored under <d> holds the bytes received before,  *)
(* followed by the body of the PUT.                                        *)
(***************************************************************************)
C22_PutAppendsTrailingChunk ==
    [][\A name \in Repos, id \in Locations, d \in DigestArgs :
          (/\ req'.op = "UploadPut"
           /\ req'.uri = SessionURI(name, id)
           /\ req'.digest = d
           /\ req'.body # <<>>
           /\ IsFile(fs, BlobPath(name, id)))
          => /\ IsFile(fs', BlobPath(name, d))
             /\ fs'.files[BlobPath(name, d)] = fs.files[BlobPath(name, id)] \o req'.body]_vars

(***************************************************************************)
(* C23: every request gets exactly one response from at most one arm of    *)
(* the handler: WriteHeader is called at most once, at most one error body *)
(* is written, and an error body is written only by the call that sets the *)
(* status.  In particular the upload-init POST, answered 202, gets no      *)
(* second status and no error body from the arm of the POST with digest.   *)
(***************************************************************************)
C23_OneResponsePerRequest ==
    req.op # "none"
    => /\ resp.calls <= 1
       /\ Len(resp.msgs) <= 1
       /\ resp.msgs # <<>> => resp.status >= 400

\* the blob d of repository dst is the hard link end-11 made of the blob d of
\* repository src
Mounted(f, src, dst, d) ==
    /\ src # dst
    /\ IsFile(f, BlobPath(src, d))
    /\ BlobPath(dst, d) \in GroupOf(f, BlobPath(src, d))

\* the operations of the upload endpoints (end-4a, end-4b, end-5, end-6)
UploadOps == {"UploadInit", "SinglePost", "PatchFirst", "PatchChunk", "UploadPut"}

(***************************************************************************)
(* C24: once blob d has been mounted from repository A into repository B,  *)
(* no upload request addressed to A changes what GET /v2/B/blobs/d         *)
(* returns; this includes a new push to A under the digest d of a body     *)
(* that does not match d.                                                  *)
(***************************************************************************)
C24_MountIsolatesRepositories ==
    [][\A A \in Repos, B \in Repos, d \in DigestArgs :
          (/\ Mounted(fs, A, B, d)
           /\ req'.op \in UploadOps
           /\ parseName(req'.uri).name = A)
          => Get(fs', BlobURI(B, d)) = Get(fs, BlobURI(B, d))]_vars

====
